---- MODULE Spec2Model ----
(***************************************************************************)
(* County budget allocation: the AllocationCalculator of                   *)
(* lib/helpers/allocation_methods.py, the budget-creation orchestration    *)
(* and the relational store behind the County / Budget / Allocation models.*)
(*                                                                         *)
(* Representation of numbers.  The program computes in binary floating     *)
(* point and rounds with round(x, 2).  The model computes with exact       *)
(* rationals over integers:                                                *)
(*   - a budget amount is an integer number of half cents (0.005), so that *)
(*     1 = 0.005, 2 = 0.01, 3 = 0.015, ...: the CLI reads the amount with  *)
(*     type=float and the validators only require it to be positive;       *)
(*   - a rounded amount is an integer number of cents (0.01);              *)
(*   - a rounded percentage is an integer number of hundredths of a        *)
(*     percent;                                                            *)
(*   - GDP per capita values are kept multiplied by GdpScale(counties),    *)
(*     the product of the populations, which makes them integers; weights  *)
(*     and their sum carry the same factor and the share weight / total    *)
(*     does not depend on it.                                              *)
(* round(x, 2) rounds the binary double nearest to the computed value.     *)
(* Away from a rounding boundary that is the rounding of the exact value.  *)
(* When the exact value lies on a boundary (x.xx5) the double is a hair    *)
(* above or below it, depending on the bits of the operands:               *)
(* round(0.005, 2) = 0.01 but round((1 / 3) * 0.015, 2) = 0.0.  Which way  *)
(* a boundary value goes is a fixed but unknown function of the inputs; it *)
(* is the variable half_up, drawn when the calculator is constructed.      *)
(***************************************************************************)
EXTENDS Integers, Sequences, FiniteSets, TLC

(***************************************************************************)
(* Bounds of the model and sample domains of the inputs.                   *)
(***************************************************************************)
MaxCounties == 3
MaxBudget == 4
LargeBudget == 200
MaxStoreCounties == 2
MaxStoreBudgets == 1
MaxSummaryCounties == 2
MaxStoreAllocations == 2
MaxRowId == 2
MaxOpenSessions == 1

Populations == {1, 2}
Outputs == {0, 1, 3}
Scores == {1, 2}
CountyNames == <<"Kiambu", "Mombasa", "Nairobi", "Nakuru", "Kisumu">>
Methods == {"equal", "gdp_per_capita", "project_based"}

VARIABLES
    budget_amount,   \* AllocationCalculator.budget_amount, in half cents
    counties,        \* AllocationCalculator.counties, a sequence of County
    calc,            \* "none" | "ready" | "failed": whether a calculator exists
    half_up,         \* [Methods -> set of cent values v with v + 1/2 rounded up]
    op,              \* the last calculator operation run ("none" at the start)
    allocations,     \* the list returned by the last operation
    error            \* the message of the exception it raised, "" if none

calcVars == <<budget_amount, counties, calc, half_up, op, allocations, error>>

VARIABLES
    county_table,      \* the committed rows of table counties
    budget_table,      \* the committed rows of table budgets
    allocation_table,  \* the committed rows of table allocations
    last,              \* the outcome of the last storage operation
    open_sessions      \* the number of sessions acquired and not closed

storeVars == <<county_table, budget_table, allocation_table, last, open_sessions>>

VARIABLES
    returned,         \* what the last get_allocation_summary / comparison returned
    computed,         \* the allocation computations the last operation ran
    remaining_round,  \* the boundary values of 'remaining' round() took up / down
    first_call        \* history: the first call on the calculator and its output

summaryVars == <<returned, computed, remaining_round, first_call>>
vars == <<calcVars, storeVars, summaryVars>>

(***************************************************************************)
(* Sequence helpers (sum, min, max as the Python builtins compute them).   *)
(***************************************************************************)
RECURSIVE SumSeq(_)
SumSeq(s) == IF s = << >> THEN 0 ELSE Head(s) + SumSeq(Tail(s))

RECURSIVE MinSeq(_)
MinSeq(s) ==
    IF Len(s) = 1 THEN s[1]
    ELSE LET m == MinSeq(Tail(s)) IN IF s[1] <= m THEN s[1] ELSE m

RECURSIVE MaxSeq(_)
MaxSeq(s) ==
    IF Len(s) = 1 THEN s[1]
    ELSE LET m == MaxSeq(Tail(s)) IN IF s[1] >= m THEN s[1] ELSE m

RECURSIVE ProdSeq(_)
ProdSeq(s) == IF s = << >> THEN 1 ELSE Head(s) * ProdSeq(Tail(s))

(***************************************************************************)
(* round(num / den, 0) for num >= 0, den > 0, where the value is in the    *)
(* unit of the result.  ups is the set of integers v such that the         *)
(* boundary value v + 1/2 is rounded up to v + 1.                          *)
(***************************************************************************)
\* the value cut to the cent below instead of rounded
RoundWith_Truncates(num, den, ups) == num \div den

RoundWith(num, den, ups) ==
    LET q == num \div den
        r == num % den
    IN  IF 2 * r < den THEN q
        ELSE IF 2 * r > den THEN q + 1
        ELSE IF q \in ups THEN q + 1 ELSE q

IsBoundary(num, den) == 2 * (num % den) = den

\* round() of a value the double represents exactly: round half to even.
RoundHalfEven(num, den) ==
    LET q == num \div den
        r == num % den
    IN  IF 2 * r < den THEN q
        ELSE IF 2 * r > den THEN q + 1
        ELSE IF q % 2 = 0 THEN q ELSE q + 1

(***************************************************************************)
(* County.gdp_per_capita, multiplied by the scale d (a common multiple of  *)
(* the populations).                                                       *)
(***************************************************************************)
gdp_per_capita(county, d) ==
    IF county.population = 0 THEN 0
    ELSE (county.economic_output * d) \div county.population

GdpScale(cs) ==
    ProdSeq([i \in DOMAIN cs |->
                IF cs[i].population = 0 THEN 1 ELSE cs[i].population])

(***************************************************************************)
(* list.sort(key=..., reverse=True): a stable sort, descending by key.     *)
(* keys[i] is the key of items[i].  An element is inserted behind every    *)
(* element whose key is not smaller, so equal keys keep their order.       *)
(***************************************************************************)
RECURSIVE InsertDesc(_, _, _, _)
InsertDesc(sorted, sortedKeys, x, k) ==
    \* the pair <<items, keys>> after inserting x with key k
    IF sorted = << >> THEN <<(<<x>>), (<<k>>)>>
    ELSE IF Head(sortedKeys) >= k
         THEN LET rest == InsertDesc(Tail(sorted), Tail(sortedKeys), x, k)
              IN  <<(<<Head(sorted)>>) \o rest[1], (<<Head(sortedKeys)>>) \o rest[2]>>
         ELSE <<(<<x>>) \o sorted, (<<k>>) \o sortedKeys>>

RECURSIVE SortPairsDesc(_, _)
SortPairsDesc(items, keys) ==
    IF items = << >> THEN <<(<< >>), (<< >>)>>
    ELSE LET n == Len(items)
             front == SortPairsDesc(SubSeq(items, 1, n - 1), SubSeq(keys, 1, n - 1))
         IN  InsertDesc(front[1], front[2], items[n], keys[n])

\* sort ascending, then reverse: equal keys end up in reverse order
RECURSIVE Reverse(_)
Reverse(s) == IF s = << >> THEN << >> ELSE Reverse(Tail(s)) \o <<Head(s)>>

SortDescending_ReversedAscending(items, keys) ==
    Reverse(SortPairsDesc(items, [i \in DOMAIN keys |-> 0 - keys[i]])[1])

SortDescending(items, keys) == SortPairsDesc(items, keys)[1]

(***************************************************************************)
(* The three allocation methods as functions of the calculator's fields.   *)
(* b is budget_amount (half cents), cs the county list, ups the cent       *)
(* values whose upper boundary is rounded up.  Each returns                *)
(* [ok, value, error]: the returned list, or the exception raised.         *)
(***************************************************************************)
Returned(v) == [ok |-> TRUE, value |-> v, error |-> ""]
Raised(msg) == [ok |-> FALSE, value |-> << >>, error |-> msg]

EqualRecords_FloorDivision(b, cs, ups) ==
    [i \in DOMAIN cs |->
        [county_id   |-> cs[i].id,
         county_name |-> cs[i].name,
         amount      |-> b \div (2 * Len(cs)),
         percentage  |-> RoundHalfEven(10000 * b, Len(cs) * b),
         method      |-> "equal"]]

EqualRecords(b, cs, ups) ==
    [i \in DOMAIN cs |->
        [county_id   |-> cs[i].id,
         county_name |-> cs[i].name,
         amount      |-> RoundWith(b, 2 * Len(cs), ups),
         percentage  |-> RoundHalfEven(10000 * b, Len(cs) * b),
         method      |-> "equal"]]

equal_allocation(b, cs, ups) ==
    IF Len(cs) = 0 \/ b = 0 THEN Raised("division by zero")
    ELSE Returned(EqualRecords(b, cs, ups))

GdpValues(cs) ==
    LET d == GdpScale(cs) IN [i \in DOMAIN cs |-> gdp_per_capita(cs[i], d)]

GdpWeight_NoMin(g, min_gdp, max_gdp) == max_gdp - g

GdpWeight_Direct(g, min_gdp, max_gdp) == g

\* the reflection with its sign turned: the higher value weighs more
GdpWeight_FromMin(g, min_gdp, max_gdp) == g - min_gdp + max_gdp

GdpWeight(g, min_gdp, max_gdp) == max_gdp - g + min_gdp

GdpWeights(cs) ==
    LET g == GdpValues(cs)
        min_gdp == MinSeq(g)
        max_gdp == MaxSeq(g)
    IN  [i \in DOMAIN cs |-> GdpWeight(g[i], min_gdp, max_gdp)]

GdpRecords(b, cs, ups) ==
    LET g == GdpValues(cs)
        d == GdpScale(cs)
        w == GdpWeights(cs)
        total_inverse_weight == SumSeq(w)
    IN  [i \in DOMAIN cs |->
            [county_id      |-> cs[i].id,
             county_name    |-> cs[i].name,
             amount         |-> RoundWith(w[i] * b, 2 * total_inverse_weight, ups),
             percentage     |-> RoundHalfEven(10000 * w[i] * b, total_inverse_weight * b),
             gdp_per_capita |-> RoundHalfEven(100 * g[i], d),
             method         |-> "gdp_per_capita"]]

GdpSortKeys(records) == [i \in DOMAIN records |-> records[i].amount]

gdp_per_capita_allocation(b, cs, ups) ==
    IF Len(cs) = 0 THEN Raised("min() arg is an empty sequence")
    ELSE IF b = 0 \/ SumSeq(GdpWeights(cs)) = 0 THEN Raised("division by zero")
    ELSE LET records == GdpRecords(b, cs, ups)
         IN  Returned(SortDescending(records, GdpSortKeys(records)))

ProjectScores(cs) == [i \in DOMAIN cs |-> cs[i].project_score]

\* the score taken as tenths of the budget instead of a share of the total
ProjectRecords_Unnormalised(b, cs, ups) ==
    [i \in DOMAIN cs |->
        [county_id     |-> cs[i].id,
         county_name   |-> cs[i].name,
         amount        |-> RoundWith(cs[i].project_score * b, 2 * 10, ups),
         percentage    |-> RoundHalfEven(10000 * cs[i].project_score * b, 10 * b),
         project_score |-> cs[i].project_score,
         method        |-> "project_based"]]

\* the share of the other counties' scores instead of the county's own
ProjectRecords_Inverted(b, cs, ups) ==
    LET total_project_score == SumSeq([i \in DOMAIN cs |-> cs[i].project_score])
    IN  [i \in DOMAIN cs |->
            [county_id     |-> cs[i].id,
             county_name   |-> cs[i].name,
             amount        |-> RoundWith((total_project_score - cs[i].project_score) * b,
                                         2 * total_project_score, ups),
             percentage    |-> RoundHalfEven(
                                  10000 * (total_project_score - cs[i].project_score) * b,
                                  total_project_score * b),
             project_score |-> cs[i].project_score,
             method        |-> "project_based"]]

ProjectRecords(b, cs, ups) ==
    LET total_project_score == SumSeq(ProjectScores(cs))
    IN  [i \in DOMAIN cs |->
            [county_id     |-> cs[i].id,
             county_name   |-> cs[i].name,
             amount        |-> RoundWith(cs[i].project_score * b,
                                         2 * total_project_score, ups),
             percentage    |-> RoundHalfEven(10000 * cs[i].project_score * b,
                                             total_project_score * b),
             project_score |-> cs[i].project_score,
             method        |-> "project_based"]]

ProjectSortKeys_ByAmount(records) == [i \in DOMAIN records |-> records[i].amount]

ProjectSortKeys(records) == [i \in DOMAIN records |-> records[i].project_score]

\* the zero total is not defended: the division fails instead
project_based_allocation_Unguarded(b, cs, ups) ==
    IF b = 0 \/ SumSeq(ProjectScores(cs)) = 0 THEN Raised("division by zero")
    ELSE LET records == ProjectRecords(b, cs, ups)
         IN  Returned(SortDescending(records, ProjectSortKeys(records)))

project_based_allocation(b, cs, ups) ==
    IF SumSeq(ProjectScores(cs)) = 0 THEN Raised("Total project score cannot be zero")
    ELSE IF b = 0 THEN Raised("division by zero")
    ELSE LET records == ProjectRecords(b, cs, ups)
         IN  Returned(SortDescending(records, ProjectSortKeys(records)))

(***************************************************************************)
(* Which boundary values a method meets on an input, and which of them it  *)
(* computes without floating-point error (a share 1 / 2^k: the division    *)
(* and the multiplication are exact, so every method that reaches the      *)
(* value this way holds the same double and rounds it the same way).       *)
(***************************************************************************)
RECURSIVE IsPowerOfTwo(_)
IsPowerOfTwo(n) == n = 1 \/ (n > 1 /\ n % 2 = 0 /\ IsPowerOfTwo(n \div 2))

\* the cent values q such that some county's unrounded amount is q + 1/2,
\* for shares num[i] / den of the budget b; exactOnly keeps the exact shares
BoundaryCents(b, num, den, exactOnly) ==
    IF den = 0 THEN {}
    ELSE {(num[i] * b) \div (2 * den) :
            i \in {j \in DOMAIN num :
                     /\ IsBoundary(num[j] * b, 2 * den)
                     /\ exactOnly =>
                           /\ num[j] > 0
                           /\ den % num[j] = 0
                           /\ IsPowerOfTwo(den \div num[j])}}

\* the GDP weights are sums and differences of quotients, exact only when
\* every weight is the same double and there are at most two of them
GdpSharesExact(cs) ==
    LET w == GdpWeights(cs)
    IN  Len(cs) <= 2 /\ \A i, j \in DOMAIN cs : w[i] = w[j]

MethodBoundaries(method, b, cs, exactOnly) ==
    IF method = "equal"
        THEN BoundaryCents(b, [i \in DOMAIN cs |-> 1], Len(cs), exactOnly)
    ELSE IF method = "gdp_per_capita"
        THEN IF exactOnly /\ ~GdpSharesExact(cs) THEN {}
             ELSE BoundaryCents(b, GdpWeights(cs), SumSeq(GdpWeights(cs)), exactOnly)
    ELSE BoundaryCents(b, ProjectScores(cs), SumSeq(ProjectScores(cs)), exactOnly)

\* the ways of rounding the boundaries met, given those of each method (met) and
\* the exactly computed ones among them (exact)
RoundingsOf(met, exact) ==
    {h \in [Methods -> SUBSET (UNION {met[m] : m \in Methods})] :
        /\ \A m \in Methods : h[m] \subseteq met[m]
        /\ \A m1, m2 \in Methods :
             \A q \in exact[m1] \cap exact[m2] : q \in h[m1] <=> q \in h[m2]}

RoundingChoices(b, cs) ==
    UNION {RoundingsOf(met, exact) :
             met \in {[m \in Methods |-> MethodBoundaries(m, b, cs, FALSE)]},
             exact \in {[m \in Methods |-> MethodBoundaries(m, b, cs, TRUE)]}}

(***************************************************************************)
(* The calculator: construction and its operations.                        *)
(***************************************************************************)
\* in half cents: -0.005, 0, 0.005 .. MaxBudget * 0.005, and one larger amount
BudgetAmounts == ((0 - 1) .. MaxBudget) \cup {LargeBudget}

Profiles ==
    [population : Populations, economic_output : Outputs, project_score : Scores]

\* county lists as the repository returns them: distinct ids, distinct names
CountyLists ==
    UNION {{[i \in 1..n |->
               [id              |-> i,
                name            |-> CountyNames[i],
                population      |-> ps[i].population,
                economic_output |-> ps[i].economic_output,
                project_score   |-> ps[i].project_score]] : ps \in [1..n -> Profiles]}
           : n \in 0..MaxCounties}

NoRounding == [m \in Methods |-> {}]

InitError_AcceptsZero(b, cs) ==
    IF Len(cs) = 0 THEN "Cannot allocate budget to zero counties"
    ELSE IF b < 0 THEN "Budget amount must be greater than zero"
    ELSE ""

\* AllocationCalculator.__init__: "" when it returns, else the message raised
InitError(b, cs) ==
    IF Len(cs) = 0 THEN "Cannot allocate budget to zero counties"
    ELSE IF b <= 0 THEN "Budget amount must be greater than zero"
    ELSE ""

Construct(b, cs) ==
    /\ calc = "none"
    /\ budget_amount' = b
    /\ counties' = cs
    /\ error' = InitError(b, cs)
    /\ calc' = IF InitError(b, cs) = "" THEN "ready" ELSE "failed"
    /\ half_up' \in (IF InitError(b, cs) = "" THEN RoundingChoices(b, cs) ELSE {NoRounding})
    /\ UNCHANGED <<op, allocations>>
    /\ UNCHANGED storeVars
    /\ UNCHANGED summaryVars

\* the history of calls: nothing recorded yet / not recorded at all
NoCall == [call |-> <<"none">>, output |-> << >>, budget_amount |-> 0,
           counties |-> << >>, repeated |-> FALSE]
Untracked == [NoCall EXCEPT !.call = <<"untracked">>]

\* the first call with its output and the calculator's fields after it, and
\* whether the same call was made again later
Recorded(call, output, b, cs) ==
    IF first_call = NoCall
        THEN [call |-> call, output |-> output, budget_amount |-> b,
              counties |-> cs, repeated |-> FALSE]
    ELSE [first_call EXCEPT !.repeated = @ \/ call = first_call.call]

\* the method sorts the calculator's own county list into the order it returns
RunMethod_SortsInPlace(method, outcome) ==
    /\ calc = "ready"
    /\ op' = method
    /\ allocations' = outcome.value
    /\ error' = outcome.error
    /\ computed' = {method}
    /\ counties' = IF outcome.ok
                       THEN [k \in DOMAIN outcome.value |->
                               CHOOSE c \in {counties[i] : i \in DOMAIN counties} :
                                   c.id = outcome.value[k].county_id]
                   ELSE counties
    /\ first_call' = Recorded(<<method>>, outcome, budget_amount, counties')
    /\ returned' = << >>
    /\ UNCHANGED <<budget_amount, calc, half_up>>
    /\ UNCHANGED remaining_round
    /\ UNCHANGED storeVars

RunMethod(method, outcome) ==
    /\ calc = "ready"
    /\ op' = method
    /\ allocations' = outcome.value
    /\ error' = outcome.error
    /\ computed' = {method}
    /\ first_call' = Recorded(<<method>>, outcome, budget_amount, counties)
    /\ returned' = << >>
    /\ UNCHANGED <<budget_amount, counties, calc, half_up>>
    /\ UNCHANGED remaining_round
    /\ UNCHANGED storeVars

EqualAllocation ==
    RunMethod("equal", equal_allocation(budget_amount, counties, half_up["equal"]))

GdpPerCapitaAllocation ==
    RunMethod("gdp_per_capita",
              gdp_per_capita_allocation(budget_amount, counties, half_up["gdp_per_capita"]))

ProjectBasedAllocation ==
    RunMethod("project_based",
              project_based_allocation(budget_amount, counties, half_up["project_based"]))

InitialState(history) ==
    /\ county_table = {}
    /\ budget_table = {}
    /\ allocation_table = {}
    /\ last = [op |-> "none", raised |-> FALSE, error |-> "",
               failure |-> [at |-> "none", k |-> 0], budget_id |-> 0, summary |-> << >>,
               id |-> 0, value |-> << >>, kwargs |-> << >>]
    /\ open_sessions = 0
    /\ budget_amount = 0
    /\ counties = << >>
    /\ calc = "none"
    /\ half_up = NoRounding
    /\ op = "none"
    /\ allocations = << >>
    /\ error = ""
    /\ returned = << >>
    /\ computed = {}
    /\ remaining_round = [up |-> {}, down |-> {}]
    /\ first_call = history

CalcInit == InitialState(Untracked)

CalcNext ==
    \/ calc = "none" /\ \E b \in BudgetAmounts, cs \in CountyLists : Construct(b, cs)
    \/ EqualAllocation
    \/ GdpPerCapitaAllocation
    \/ ProjectBasedAllocation

SpecCalc == CalcInit /\ [][CalcNext]_vars

(***************************************************************************)
(* The store.  A table is the set of its committed rows.  A session works  *)
(* on [db, tx, pending, deleted, open]: db the committed tables, tx the    *)
(* rows written in the open transaction, pending the objects added and not *)
(* yet flushed, deleted the rows marked by session.delete(), open whether  *)
(* the session still holds its connection.                                 *)
(***************************************************************************)
NoRows == [counties |-> {}, budgets |-> {}, allocations |-> {}]

Tables == [counties |-> county_table, budgets |-> budget_table,
           allocations |-> allocation_table]

\* get_db_session(): a new session on the committed tables
get_db_session ==
    [db |-> Tables, tx |-> NoRows, pending |-> << >>, deleted |-> NoRows, open |-> TRUE]

MaxId(rows) == CHOOSE m \in {r.id : r \in rows} : \A r \in rows : r.id <= m

\* INTEGER PRIMARY KEY: one more than the largest id the connection sees
NextId(rows) == IF rows = {} THEN 1 ELSE MaxId(rows) + 1

SessionAdd(s, obj) == [s EXCEPT !.pending = Append(@, obj)]

\* INSERT the first n pending objects, in the order they were added, inside
\* the transaction
RECURSIVE InsertFirst(_, _)
InsertFirst(s, n) ==
    IF n = 0 \/ s.pending = << >> THEN s
    ELSE LET obj == Head(s.pending)
             t == obj.table
             id == NextId(s.db[t] \cup s.tx[t])
         IN  InsertFirst([s EXCEPT !.tx[t] = @ \cup {[obj.row EXCEPT !.id = id]},
                                   !.pending = Tail(@)],
                         n - 1)

InsertPending(s) == InsertFirst(s, Len(s.pending))

\* the DELETEs of the marked rows, then COMMIT
CommitTransaction(s) ==
    [s EXCEPT !.db = [t \in DOMAIN s.db |-> (s.db[t] \ s.deleted[t]) \cup s.tx[t]],
              !.tx = NoRows, !.deleted = NoRows]

\* the budget row is committed where it should only be flushed
SessionFlush_Commits(s) == CommitTransaction(InsertPending(s))

SessionFlush(s) == InsertPending(s)

SessionCommit(s) == CommitTransaction(InsertPending(s))

SessionRollback(s) == [s EXCEPT !.tx = NoRows, !.pending = << >>, !.deleted = NoRows]

\* close() ends the transaction; what was not committed is gone
SessionClose(s) ==
    [s EXCEPT !.tx = NoRows, !.pending = << >>, !.deleted = NoRows, !.open = FALSE]

\* the sessions a call leaves open, of those it acquired
Leaked(sessions) == Cardinality({k \in DOMAIN sessions : sessions[k].open})

(***************************************************************************)
(* Field validators of the models ("" when the value is accepted).         *)
(***************************************************************************)
MinScore == 1
MaxScore == 10
valid_methods == {"equal", "gdp_per_capita", "project_based"}

\* county names as typed, and name.strip().title() of each
StripTitle(name) ==
    IF name \in {"nairobi", "Nairobi"} THEN "Nairobi"
    ELSE IF name = " mombasa" THEN "Mombasa"
    ELSE IF name = "KISUMU" THEN "Kisumu"
    ELSE ""

CountyError_AcceptsZeroPopulation(name, population, economic_output, project_score) ==
    IF StripTitle(name) = "" THEN "County name cannot be empty"
    ELSE IF population < 0 THEN "Population must be greater than 0"
    ELSE IF economic_output < 0 THEN "Economic output cannot be negative"
    ELSE IF project_score < MinScore \/ project_score > MaxScore
        THEN "Project score must be an integer between 1 and 10"
    ELSE ""

CountyError(name, population, economic_output, project_score) ==
    IF StripTitle(name) = "" THEN "County name cannot be empty"
    ELSE IF population <= 0 THEN "Population must be greater than 0"
    ELSE IF economic_output < 0 THEN "Economic output cannot be negative"
    ELSE IF project_score < MinScore \/ project_score > MaxScore
        THEN "Project score must be an integer between 1 and 10"
    ELSE ""

BudgetError(name, total_amount, allocation_method) ==
    IF name = "" THEN "Budget name cannot be empty"
    ELSE IF total_amount <= 0 THEN "Total budget amount must be greater than 0"
    ELSE IF allocation_method \notin valid_methods
        THEN "Allocation method must be one of: equal, gdp_per_capita, project_based"
    ELSE ""

\* an amount of zero is rejected too
AllocationError_RejectsZero(amount) ==
    IF amount <= 0 THEN "Allocation amount cannot be negative" ELSE ""

AllocationError(amount) ==
    IF amount < 0 THEN "Allocation amount cannot be negative" ELSE ""

(***************************************************************************)
(* County.create and County.get_all.                                       *)
(***************************************************************************)
Outcome(operation, message, failure, budget_id, summary) ==
    [op |-> operation, raised |-> message # "", error |-> message,
     failure |-> failure, budget_id |-> budget_id, summary |-> summary,
     id |-> 0, value |-> << >>, kwargs |-> << >>]

NoFailure == [at |-> "none", k |-> 0]

\* the county attributes typed in: two valid sets, and one invalid value of
\* each attribute
StoreProfiles ==
    {[population |-> 1, economic_output |-> 0, project_score |-> 1],
     [population |-> 2, economic_output |-> 3, project_score |-> 2]}

InvalidProfiles ==
    {[population |-> 0, economic_output |-> 1, project_score |-> 1],
     [population |-> 1, economic_output |-> 0 - 1, project_score |-> 1],
     [population |-> 1, economic_output |-> 1, project_score |-> MaxScore + 1]}

CountyInputs ==
    {[name |-> n, profile |-> p] : n \in {"nairobi", " mombasa", "KISUMU"}, p \in StoreProfiles}
        \cup {[name |-> n, profile |-> CHOOSE p \in StoreProfiles : p.population = 1] :
                 n \in {"", " ", "Nairobi"}}
        \cup {[name |-> "nairobi", profile |-> p] : p \in InvalidProfiles}

\* the tables and the outcome a storage operation leaves behind
Finish(result) ==
    /\ county_table' = result.db.counties
    /\ budget_table' = result.db.budgets
    /\ allocation_table' = result.db.allocations
    /\ last' = result.outcome
    /\ open_sessions' = open_sessions + result.open
    /\ UNCHANGED calcVars
    /\ UNCHANGED summaryVars

\* County.create(name, population, economic_output, project_score)
County_create(name, p) ==
    LET message == CountyError(name, p.population, p.economic_output, p.project_score)
        row == [id |-> 0, name |-> StripTitle(name), population |-> p.population,
                economic_output |-> p.economic_output, project_score |-> p.project_score]
        duplicate == \E r \in county_table : r.name = row.name
        s == IF message # "" \/ duplicate THEN SessionRollback(get_db_session)
             ELSE SessionCommit(SessionAdd(get_db_session,
                                           [table |-> "counties", row |-> row]))
    IN  [db |-> SessionClose(s).db,
         open |-> Leaked(<<SessionClose(s)>>),
         outcome |-> Outcome("create_county",
                             IF message # "" THEN message
                             ELSE IF duplicate THEN "UNIQUE constraint failed: counties.name"
                             ELSE "",
                             NoFailure, 0, << >>)]

CreateCounty(name, p) ==
    /\ Cardinality(county_table) < MaxStoreCounties
    /\ Finish(County_create(name, p))

\* session.query(County).all(): the rows in rowid order
RECURSIVE RowsById(_)
RowsById(rows) ==
    IF rows = {} THEN << >>
    ELSE LET first == CHOOSE r \in rows : \A q \in rows : r.id <= q.id
         IN  <<first>> \o RowsById(rows \ {first})

get_all_counties == RowsById(county_table)

(***************************************************************************)
(* get_allocation_summary's dispatch on the method name.                   *)
(***************************************************************************)
\* an unknown name falls back to the equal split
AllocationsFor_DefaultsToEqual(method, b, cs, h) ==
    IF method = "gdp_per_capita"
        THEN gdp_per_capita_allocation(b, cs, h["gdp_per_capita"])
    ELSE IF method = "project_based"
        THEN project_based_allocation(b, cs, h["project_based"])
    ELSE equal_allocation(b, cs, h["equal"])

AllocationsFor(method, b, cs, h) ==
    IF method = "equal" THEN equal_allocation(b, cs, h["equal"])
    ELSE IF method = "gdp_per_capita"
        THEN gdp_per_capita_allocation(b, cs, h["gdp_per_capita"])
    ELSE IF method = "project_based"
        THEN project_based_allocation(b, cs, h["project_based"])
    ELSE Raised("Unknown allocation method")

(***************************************************************************)
(* get_allocation_summary(method) and compare_allocation_methods.  The     *)
(* total is a sum of amounts in cents; 'remaining' is                      *)
(* round(budget_amount - total, 2), in cents, of a value in half cents:    *)
(* when that value is odd it lies on a rounding boundary, and up tells     *)
(* whether round() takes it to the cent above.                             *)
(***************************************************************************)
Amounts(records) == [i \in DOMAIN records |-> records[i].amount]

SummaryOf(method, b, cs, records, ups) ==
    LET total_allocated == SumSeq(Amounts(records))
    IN  [method          |-> method,
         total_budget    |-> b,
         total_allocated |-> RoundHalfEven(total_allocated, 1),
         remaining       |-> RoundWith(b - 2 * total_allocated, 2, ups),
         num_counties    |-> Len(cs),
         allocations     |-> records]

get_allocation_summary(method, b, cs, h, ups) ==
    LET outcome == AllocationsFor(method, b, cs, h)
    IN  IF outcome.ok THEN Returned(SummaryOf(method, b, cs, outcome.value, ups))
        ELSE Raised(outcome.error)

\* the computations a call of get_allocation_summary(method) runs
Computations(method) == IF method \in Methods THEN {method} ELSE {}

compare_allocation_methods_Aborts(b, cs, h, ups) ==
    IF InitError(b, cs) # "" THEN Raised(InitError(b, cs))
    ELSE IF \E m \in Methods : ~get_allocation_summary(m, b, cs, h, ups).ok
        THEN Raised("division by zero")
    ELSE Returned(
            [budget_amount |-> b,
             num_counties  |-> Len(cs),
             methods       |->
                [m \in Methods |-> get_allocation_summary(m, b, cs, h, ups).value]])

compare_allocation_methods(b, cs, h, ups) ==
    IF InitError(b, cs) # "" THEN Raised(InitError(b, cs))
    ELSE Returned(
            [budget_amount |-> b,
             num_counties  |-> Len(cs),
             methods       |->
                [m \in Methods |->
                    LET summary == get_allocation_summary(m, b, cs, h, ups)
                    IN  IF summary.ok THEN summary.value
                        ELSE [error |-> summary.error]]])

\* the boundary the 'remaining' of a method lies on, if it does: the cent
\* below budget_amount - total, which round() takes up or down
RemainingBoundary(method, b, cs, h) ==
    LET outcome == AllocationsFor(method, b, cs, h)
        v == b - 2 * SumSeq(Amounts(outcome.value))
    IN  IF outcome.ok /\ v % 2 = 1 THEN {v \div 2} ELSE {}

\* the ways round() can take the boundaries qs, given how it took the known ones
Resolved(known, qs) ==
    {[up |-> known.up \cup u, down |-> known.down \cup ((qs \ known.up) \ u)] :
        u \in SUBSET (qs \ (known.up \cup known.down))}

RunSummary(method, rounding, outcome) ==
    /\ op' = "get_allocation_summary"
    /\ returned' = [arg |-> method, ok |-> outcome.ok, value |-> outcome.value]
    /\ allocations' = IF outcome.ok THEN outcome.value.allocations ELSE << >>
    /\ error' = outcome.error
    /\ computed' = Computations(method)
    /\ remaining_round' = rounding
    /\ first_call' = Recorded(<<"get_allocation_summary", method>>, outcome,
                               budget_amount, counties)
    /\ UNCHANGED <<budget_amount, counties, calc, half_up>>
    /\ UNCHANGED storeVars

GetAllocationSummary(method) ==
    /\ calc = "ready"
    /\ \E rounding \in
            Resolved(remaining_round,
                     IF method \in Methods
                         THEN RemainingBoundary(method, budget_amount, counties, half_up)
                         ELSE {}) :
          RunSummary(method, rounding,
                     get_allocation_summary(method, budget_amount, counties, half_up,
                                            rounding.up))

RunCompare(rounding, outcome) ==
    /\ op' = "compare_allocation_methods"
    /\ returned' = [arg |-> "", ok |-> outcome.ok, value |-> outcome.value]
    /\ allocations' = << >>
    /\ error' = outcome.error
    /\ computed' = IF outcome.ok THEN Methods ELSE {}
    /\ remaining_round' = rounding
    /\ first_call' = Recorded(<<"compare_allocation_methods">>, outcome,
                               budget_amount, counties)
    /\ UNCHANGED <<budget_amount, counties, calc, half_up>>
    /\ UNCHANGED storeVars

\* compare_allocation_methods(budget_amount, counties) on the calculator's inputs
CompareAllocationMethods ==
    /\ calc \in {"ready", "failed"}
    /\ \E rounding \in
            Resolved(remaining_round,
                     IF calc = "failed" THEN {}
                     ELSE UNION {RemainingBoundary(m, budget_amount, counties, half_up) :
                                    m \in Methods}) :
          RunCompare(rounding,
                     compare_allocation_methods(budget_amount, counties, half_up,
                                                rounding.up))

\* the county attributes the summaries are taken on: no output, two counties
\* apart in GDP per capita, and a county without a project score
SummaryProfiles ==
    {[population |-> 1, economic_output |-> 0, project_score |-> 1],
     [population |-> 2, economic_output |-> 3, project_score |-> 2],
     [population |-> 1, economic_output |-> 1, project_score |-> 0]}

SummaryLists ==
    UNION {{[i \in 1..n |->
               [id              |-> i,
                name            |-> CountyNames[i],
                population      |-> ps[i].population,
                economic_output |-> ps[i].economic_output,
                project_score   |-> ps[i].project_score]] : ps \in [1..n -> SummaryProfiles]}
           : n \in 0..MaxSummaryCounties}

\* in half cents: 0, 0.015 (not a whole number of cents) and 0.02
SummaryAmounts == {0, 3, 4}

SummaryInit == InitialState(NoCall)

SummaryNext ==
    \/ calc = "none" /\ \E b \in SummaryAmounts, cs \in SummaryLists : Construct(b, cs)
    \/ EqualAllocation
    \/ GdpPerCapitaAllocation
    \/ ProjectBasedAllocation
    \/ \E method \in Methods \cup {"unknown"} : GetAllocationSummary(method)
    \/ CompareAllocationMethods

SpecSummary == SummaryInit /\ [][SummaryNext]_vars

(***************************************************************************)
(* create_budget_with_allocations(name, total_amount, allocation_method,   *)
(* counties).  failure is the storage failure injected into the call: at   *)
(* the flush of the budget, at the k-th allocation INSERT of the commit,   *)
(* at the COMMIT itself, or at the refresh after it.                       *)
(***************************************************************************)
\* the calls made: every valid budget, and one invalid value of each argument
BudgetInputs ==
    {[name |-> "Roads", total_amount |-> 4, allocation_method |-> m] : m \in valid_methods}
        \cup {[name |-> "", total_amount |-> 4, allocation_method |-> "equal"],
              [name |-> "Roads", total_amount |-> 0, allocation_method |-> "equal"],
              [name |-> "Roads", total_amount |-> 4, allocation_method |-> "unknown"]}

Failures ==
    {[at |-> a, k |-> 0] : a \in {"none", "flush", "commit", "refresh"}}
        \cup {[at |-> "insert", k |-> k] : k \in 1..MaxStoreCounties}

RECURSIVE AddAll(_, _)
AddAll(s, objs) ==
    IF objs = << >> THEN s ELSE AddAll(SessionAdd(s, Head(objs)), Tail(objs))

\* the first exception raised by Allocation(...) in the loop, "" if none
RECURSIVE FirstAllocationError(_)
FirstAllocationError(records) ==
    IF records = << >> THEN ""
    ELSE IF AllocationError(Head(records).amount) # ""
        THEN AllocationError(Head(records).amount)
    ELSE FirstAllocationError(Tail(records))

create_budget_with_allocations(name, total_amount, allocation_method, cs, h, failure) ==
    LET session == get_db_session
        budget_error == BudgetError(name, total_amount, allocation_method)
        budget == [table |-> "budgets",
                   row |-> [id |-> 0, name |-> name, total_amount |-> total_amount,
                            allocation_method |-> allocation_method]]
        added == SessionAdd(session, budget)
        flushed == SessionFlush(added)
        budget_id == NextId(budget_table)
        init_error == InitError(total_amount, cs)
        allocation_summary == AllocationsFor(allocation_method, total_amount, cs, h)
        records == allocation_summary.value
        allocation_error == FirstAllocationError(records)
        allocation_objects ==
            [k \in DOMAIN records |->
                [table |-> "allocations",
                 row |-> [id |-> 0, budget_id |-> budget_id,
                          county_id |-> records[k].county_id,
                          amount |-> records[k].amount]]]
        all_added == AddAll(flushed, allocation_objects)
        committed == SessionCommit(all_added)
        stage ==
            IF budget_error # "" THEN "budget"
            ELSE IF failure.at = "flush" THEN "flush"
            ELSE IF init_error # "" THEN "calculator"
            ELSE IF ~allocation_summary.ok THEN "summary"
            ELSE IF allocation_error # "" THEN "allocation"
            ELSE IF failure.at = "insert" /\ failure.k <= Len(records) THEN "insert"
            ELSE IF failure.at = "commit" THEN "commit"
            ELSE IF failure.at = "refresh" THEN "refresh"
            ELSE "done"
        message ==
            IF stage = "budget" THEN budget_error
            ELSE IF stage = "calculator" THEN init_error
            ELSE IF stage = "summary" THEN allocation_summary.error
            ELSE IF stage = "allocation" THEN allocation_error
            ELSE IF stage = "done" THEN ""
            ELSE "OperationalError"
        \* the session when the exception is raised
        failed ==
            IF stage = "budget" THEN session
            ELSE IF stage = "flush" THEN added
            ELSE IF stage \in {"calculator", "summary", "allocation"} THEN flushed
            ELSE IF stage = "insert" THEN InsertFirst(all_added, failure.k - 1)
            ELSE IF stage = "commit" THEN InsertPending(all_added)
            ELSE committed
        closed == SessionClose(IF stage = "done" THEN committed
                               ELSE SessionRollback(failed))
    IN  [db |-> closed.db,
         open |-> Leaked(<<closed>>),
         outcome |->
            Outcome("create_budget_with_allocations", message,
                    [at |-> stage, k |-> IF stage = "insert" THEN failure.k ELSE 0],
                    IF stage \in {"budget", "flush"} THEN 0 ELSE budget_id,
                    IF stage \in {"budget", "flush", "calculator", "summary"}
                        THEN << >> ELSE records)]

\* an injected failure is one the call runs into
FinishAt(failure, result) ==
    /\ failure.at # "none" => result.outcome.failure = failure
    /\ Finish(result)

CreateBudgetWithAllocations(name, total_amount, allocation_method, cs, failure) ==
    /\ Cardinality(budget_table) < MaxStoreBudgets
    /\ \E h \in (IF InitError(total_amount, cs) = ""
                    THEN RoundingChoices(total_amount, cs) ELSE {NoRounding}) :
          FinishAt(failure,
                   create_budget_with_allocations(name, total_amount, allocation_method,
                                                  cs, h, failure))

StoreInit == CalcInit

StoreNext ==
    \/ \E c \in CountyInputs : CreateCounty(c.name, c.profile)
    \/ \E b \in BudgetInputs, cs \in {get_all_counties, << >>}, failure \in Failures :
          CreateBudgetWithAllocations(b.name, b.total_amount, b.allocation_method,
                                      cs, failure)

Spec == StoreInit /\ [][StoreNext]_vars

(***************************************************************************)
(* The other storage operations of the models and of db_operations.  Every *)
(* object handed to delete() or update() comes from find_by_id, whose      *)
(* session is closed: it is detached.  failure is the storage failure      *)
(* injected into the call: at a query, or at the commit.                   *)
(***************************************************************************)
CallOutcome(operation, id, message, failure, value) ==
    [Outcome(operation, message, failure, 0, << >>) EXCEPT !.id = id, !.value = value]

StorageFailures == {[at |-> a, k |-> 0] : a \in {"none", "query", "commit"}}

\* Model.find_by_id(id): the rows found (none or one), in a session of its own
find_by_id(table, id, failure) ==
    LET session == get_db_session
        failed == failure.at = "query"
        closed == SessionClose(session)
    IN  [found  |-> IF failed THEN {} ELSE {r \in session.db[table] : r.id = id},
         raised |-> failed,
         open   |-> Leaked(<<closed>>)]

\* the allocations loaded through the relationship 'allocations' of a row,
\* cascade="all, delete-orphan"
Cascaded_None(s, table, row) == {}

Cascaded(s, table, row) ==
    IF table = "counties" THEN {a \in s.db.allocations : a.county_id = row.id}
    ELSE IF table = "budgets" THEN {a \in s.db.allocations : a.budget_id = row.id}
    ELSE {}

\* session.delete(obj): the row and the rows the delete cascades to are marked
SessionDelete(s, table, row) ==
    LET marked == [s EXCEPT !.deleted[table] = @ \cup {row}]
    IN  [marked EXCEPT !.deleted.allocations = @ \cup Cascaded(s, table, row)]

\* Model.delete(self)
Model_delete(table, row, failure) ==
    LET session == get_db_session
        marked == SessionDelete(session, table, row)
        failed == failure.at = "commit"
        closed == SessionClose(IF failed THEN SessionRollback(marked)
                               ELSE SessionCommit(marked))
    IN  [db |-> closed.db, raised |-> failed, open |-> Leaked(<<closed>>)]

\* delete_county / delete_budget / delete_allocation (id)
DeleteById(operation, table, id, failure) ==
    LET looked == find_by_id(table, id, failure)
        row == CHOOSE r \in looked.found : TRUE
        deleted == Model_delete(table, row, failure)
    IN  IF looked.raised
            THEN [db |-> Tables, open |-> looked.open,
                  outcome |-> CallOutcome(operation, id, "OperationalError", failure, << >>)]
        ELSE IF looked.found = {}
            THEN [db |-> Tables, open |-> looked.open,
                  outcome |-> CallOutcome(operation, id, "", NoFailure, FALSE)]
        ELSE IF deleted.raised
            THEN [db |-> deleted.db, open |-> looked.open + deleted.open,
                  outcome |-> CallOutcome(operation, id, "OperationalError", failure, << >>)]
        ELSE [db |-> deleted.db, open |-> looked.open + deleted.open,
              outcome |-> CallOutcome(operation, id, "", NoFailure, TRUE)]

delete_county(county_id, failure) ==
    DeleteById("delete_county", "counties", county_id, failure)

delete_budget(budget_id, failure) ==
    DeleteById("delete_budget", "budgets", budget_id, failure)

delete_allocation(allocation_id, failure) ==
    DeleteById("delete_allocation", "allocations", allocation_id, failure)

\* the exception of the first setattr(self, key, value) a validator rejects
UpdateError(table, kwargs) ==
    LET has(key) == key \in DOMAIN kwargs
    IN  IF table = "counties" THEN
            IF has("name") /\ StripTitle(kwargs.name) = "" THEN "County name cannot be empty"
            ELSE IF has("population") /\ kwargs.population <= 0
                THEN "Population must be greater than 0"
            ELSE IF has("economic_output") /\ kwargs.economic_output < 0
                THEN "Economic output cannot be negative"
            ELSE IF has("project_score")
                    /\ (kwargs.project_score < MinScore \/ kwargs.project_score > MaxScore)
                THEN "Project score must be an integer between 1 and 10"
            ELSE ""
        ELSE IF table = "budgets" THEN
            IF has("name") /\ kwargs.name = "" THEN "Budget name cannot be empty"
            ELSE IF has("total_amount") /\ kwargs.total_amount <= 0
                THEN "Total budget amount must be greater than 0"
            ELSE IF has("allocation_method") /\ kwargs.allocation_method \notin valid_methods
                THEN "Allocation method must be one of: equal, gdp_per_capita, project_based"
            ELSE ""
        ELSE IF has("amount") THEN AllocationError(kwargs.amount)
        ELSE ""

\* Model.update(self, **kwargs): the attributes are set on the detached object,
\* which is in no session; commit() has nothing to write and refresh(self)
\* raises, the object not being persistent within the new session
Model_update(table, row, kwargs) ==
    LET session == get_db_session
        message == UpdateError(table, kwargs)
        committed == IF message # "" THEN session ELSE SessionCommit(session)
        closed == SessionClose(SessionRollback(committed))
    IN  [db |-> closed.db,
         error |-> IF message # "" THEN message ELSE "InvalidRequestError",
         open |-> Leaked(<<closed>>)]

\* update_county / update_budget / update_allocation (id, **kwargs)
UpdateById(operation, table, id, kwargs, failure) ==
    LET looked == find_by_id(table, id, failure)
        row == CHOOSE r \in looked.found : TRUE
        updated == Model_update(table, row, kwargs)
        called(message, at, value) ==
            [CallOutcome(operation, id, message, at, value) EXCEPT !.kwargs = kwargs]
    IN  IF looked.raised
            THEN [db |-> Tables, open |-> looked.open,
                  outcome |-> called("OperationalError", failure, << >>)]
        ELSE IF looked.found = {}
            THEN [db |-> Tables, open |-> looked.open,
                  outcome |-> called("", NoFailure, "None")]
        ELSE [db |-> updated.db, open |-> looked.open + updated.open,
              outcome |-> called(updated.error, NoFailure, << >>)]

update_county(county_id, kwargs, failure) ==
    UpdateById("update_county", "counties", county_id, kwargs, failure)

update_budget(budget_id, kwargs, failure) ==
    UpdateById("update_budget", "budgets", budget_id, kwargs, failure)

update_allocation(allocation_id, kwargs, failure) ==
    UpdateById("update_allocation", "allocations", allocation_id, kwargs, failure)

\* Budget.create / Allocation.create: message is what the validators raise
Model_create(operation, table, row, message, failure) ==
    LET session == get_db_session
        added == SessionAdd(session, [table |-> table, row |-> row])
        failed == message = "" /\ failure.at = "commit"
        closed == SessionClose(IF message # "" THEN SessionRollback(session)
                               ELSE IF failed THEN SessionRollback(InsertPending(added))
                               ELSE SessionCommit(added))
    IN  [db |-> closed.db, open |-> Leaked(<<closed>>),
         outcome |->
            CallOutcome(operation,
                        IF message # "" \/ failed THEN 0 ELSE NextId(Tables[table]),
                        IF failed THEN "OperationalError" ELSE message,
                        IF failed THEN failure ELSE NoFailure,
                        << >>)]

Budget_create(name, total_amount, allocation_method, failure) ==
    Model_create("create_budget", "budgets",
                 [id |-> 0, name |-> name, total_amount |-> total_amount,
                  allocation_method |-> allocation_method],
                 BudgetError(name, total_amount, allocation_method), failure)

\* the foreign keys are declared, and SQLite does not enforce them unless
\* asked to: the INSERT takes any budget_id and county_id
Allocation_create(budget_id, county_id, amount, failure) ==
    Model_create("create_allocation", "allocations",
                 [id |-> 0, budget_id |-> budget_id, county_id |-> county_id,
                  amount |-> amount],
                 AllocationError(amount), failure)


(***************************************************************************)
(* db_init: seed_sample_data and check_database_status.  Both catch every  *)
(* exception and return False.                                             *)
(***************************************************************************)
\* the first sample counties, their figures scaled down
sample_counties ==
    [i \in 1..MaxStoreCounties |->
        [name |-> <<"Nairobi", "Mombasa", "Kiambu", "Nakuru">>[i],
         population |-> i + 1, economic_output |-> 3, project_score |-> MaxScore - i]]

seed_sample_data(failure) ==
    LET session == get_db_session
        existing_counties == Cardinality(session.db.counties)
        added == AddAll(session,
                        [i \in DOMAIN sample_counties |->
                            [table |-> "counties",
                             row |-> [id |-> 0,
                                      name |-> sample_counties[i].name,
                                      population |-> sample_counties[i].population,
                                      economic_output |-> sample_counties[i].economic_output,
                                      project_score |-> sample_counties[i].project_score]]])
        stage == IF failure.at = "query" THEN "query"
                 ELSE IF existing_counties > 0 THEN "exists"
                 ELSE IF failure.at = "commit" THEN "commit"
                 ELSE "done"
        closed == IF stage = "done" THEN SessionClose(SessionCommit(added))
                  ELSE IF stage = "exists" THEN SessionClose(session)
                  ELSE IF stage = "commit"
                      THEN SessionClose(SessionRollback(InsertPending(added)))
                  ELSE SessionClose(SessionRollback(session))
    IN  [db |-> closed.db, open |-> Leaked(<<closed>>),
         outcome |-> CallOutcome("seed_sample_data", 0, "",
                                 IF stage \in {"query", "commit"} THEN failure ELSE NoFailure,
                                 stage \in {"done", "exists"})]

\* the session is closed on the way through; the except branch does not close it
check_database_status(failure) ==
    LET session == get_db_session
        failed == failure.at = "query"
        left == IF failed THEN session ELSE SessionClose(session)
    IN  [db |-> left.db, open |-> Leaked(<<left>>),
         outcome |-> CallOutcome("check_database_status", 0, "",
                                 IF failed THEN failure ELSE NoFailure, ~failed)]

(***************************************************************************)
(* The storage operations as steps, and the calls made on the store.       *)
(***************************************************************************)
CreateBudget(name, total_amount, allocation_method, failure) ==
    /\ Cardinality(budget_table) < MaxStoreBudgets
    /\ FinishAt(failure, Budget_create(name, total_amount, allocation_method, failure))

CreateAllocation(budget_id, county_id, amount, failure) ==
    /\ Cardinality(allocation_table) < MaxStoreAllocations
    /\ FinishAt(failure, Allocation_create(budget_id, county_id, amount, failure))

UpdateCounty(county_id, kwargs, failure) ==
    FinishAt(failure, update_county(county_id, kwargs, failure))

UpdateBudget(budget_id, kwargs, failure) ==
    FinishAt(failure, update_budget(budget_id, kwargs, failure))

UpdateAllocation(allocation_id, kwargs, failure) ==
    FinishAt(failure, update_allocation(allocation_id, kwargs, failure))

DeleteCounty(county_id, failure) ==
    FinishAt(failure, delete_county(county_id, failure))

DeleteBudget(budget_id, failure) ==
    FinishAt(failure, delete_budget(budget_id, failure))

DeleteAllocation(allocation_id, failure) ==
    FinishAt(failure, delete_allocation(allocation_id, failure))

SeedSampleData(failure) ==
    FinishAt(failure, seed_sample_data(failure))

CheckDatabaseStatus(failure) ==
    /\ open_sessions < MaxOpenSessions
    /\ FinishAt(failure, check_database_status(failure))

\* the counties added by hand: two valid ones, and one invalid value of each
\* attribute
CrudCountyInputs ==
    {[name |-> n, profile |-> [population |-> 1, economic_output |-> 0, project_score |-> 1]] :
        n \in {"nairobi", "KISUMU", ""}}
        \cup {[name |-> "KISUMU", profile |-> p] : p \in InvalidProfiles}

CountyUpdates == {[population |-> 5], [population |-> 0], [name |-> "KISUMU"]}

BudgetUpdates == {[total_amount |-> 2], [total_amount |-> 0]}

AllocationUpdates == {[amount |-> 0 - 1], [county_id |-> MaxRowId]}

AllocationInputs ==
    {[budget_id |-> 1, county_id |-> 1, amount |-> 1],
     [budget_id |-> 1, county_id |-> 1, amount |-> 0 - 1]}

RowIds == 1..MaxRowId

CrudInit == StoreInit

CountyCalls ==
    \/ /\ NextId(county_table) <= MaxRowId
       /\ \E c \in CrudCountyInputs : CreateCounty(c.name, c.profile)
    \/ \E id \in RowIds, kwargs \in CountyUpdates, failure \in StorageFailures :
          UpdateCounty(id, kwargs, failure)
    \/ \E id \in RowIds, failure \in StorageFailures : DeleteCounty(id, failure)

BudgetCalls ==
    \/ /\ NextId(budget_table) <= MaxRowId
       /\ \E b \in BudgetInputs, failure \in StorageFailures :
             CreateBudget(b.name, b.total_amount, b.allocation_method, failure)
    \/ \E id \in RowIds, kwargs \in BudgetUpdates, failure \in StorageFailures :
          UpdateBudget(id, kwargs, failure)
    \/ \E id \in RowIds, failure \in StorageFailures : DeleteBudget(id, failure)

AllocationCalls ==
    \/ /\ NextId(allocation_table) <= MaxRowId
       /\ \E a \in AllocationInputs, failure \in StorageFailures :
             CreateAllocation(a.budget_id, a.county_id, a.amount, failure)
    \/ \E id \in RowIds, kwargs \in AllocationUpdates, failure \in StorageFailures :
          UpdateAllocation(id, kwargs, failure)
    \/ \E id \in RowIds, failure \in StorageFailures : DeleteAllocation(id, failure)

\* the budget command: the counties are read, then the budget is created
BudgetCommand(inputs, failures) ==
    /\ NextId(budget_table) <= MaxRowId
    /\ NextId(allocation_table) + Cardinality(county_table) <= MaxRowId + 1
    /\ \E b \in inputs, failure \in failures :
          CreateBudgetWithAllocations(b.name, b.total_amount, b.allocation_method,
                                      get_all_counties, failure)

CrudNext ==
    \/ CountyCalls
    \/ BudgetCalls
    \/ AllocationCalls
    \/ BudgetCommand(BudgetInputs, Failures)
    \/ \E failure \in StorageFailures : SeedSampleData(failure)
    \/ \E failure \in StorageFailures : CheckDatabaseStatus(failure)

SpecCrud == CrudInit /\ [][CrudNext]_vars

\* the calls that write counties
CountiesNext ==
    \/ CountyCalls
    \/ \E failure \in StorageFailures : SeedSampleData(failure)

SpecCounties == CrudInit /\ [][CountiesNext]_vars

\* budgets allocated over the counties added, and rows deleted
DeletesNext ==
    \/ /\ NextId(county_table) <= MaxRowId
       /\ \E c \in {i \in CrudCountyInputs :
                       CountyError(i.name, i.profile.population, i.profile.economic_output,
                                   i.profile.project_score) = ""} :
             CreateCounty(c.name, c.profile)
    \/ BudgetCommand({b \in BudgetInputs : b.allocation_method = "equal"}, {NoFailure})
    \/ /\ NextId(allocation_table) <= MaxRowId
       /\ \E a \in AllocationInputs : CreateAllocation(a.budget_id, a.county_id, a.amount,
                                                       NoFailure)
    \/ \E id \in RowIds, failure \in StorageFailures : DeleteCounty(id, failure)
    \/ \E id \in RowIds, failure \in StorageFailures : DeleteBudget(id, failure)

SpecDeletes == CrudInit /\ [][DeletesNext]_vars

(***************************************************************************)
(* Vocabulary of the properties.                                           *)
(***************************************************************************)
\* a is num / den rounded to the nearest integer (either neighbour on a tie)
IsNearest(a, num, den) == 2 * (a * den - num) \in (0 - den) .. den

Ran(method) == calc = "ready" /\ op = method /\ error = ""

\* where a county id stands in the calculator's list / in the returned list
InputIndex(id) == CHOOSE k \in DOMAIN counties : counties[k].id = id
OutputIndex(id) == CHOOSE k \in DOMAIN allocations : allocations[k].county_id = id

OneRecordPerCounty ==
    /\ Len(allocations) = Len(counties)
    /\ \A i \in DOMAIN counties :
          Cardinality({k \in DOMAIN allocations :
                          allocations[k].county_id = counties[i].id}) = 1

AmountOf(i) == allocations[OutputIndex(counties[i].id)].amount

\* exact comparison of GDP per capita: output_i / population_i < output_j / population_j
GdpLess(i, j) ==
    counties[i].economic_output * counties[j].population
        < counties[j].economic_output * counties[i].population

(***************************************************************************)
(* C1: create_budget_with_allocations is all-or-nothing.  Whether the call *)
(* returns or raises at any step, it leaves the store with either the new  *)
(* budget row and exactly one allocation row per entry of the summary      *)
(* (carrying the new budget's id, the entry's county_id and amount), or    *)
(* with no row of the attempt at all; a failure before the commit          *)
(* completes, such as one on the second allocation insert, leaves none.    *)
(***************************************************************************)
NewBudgets == budget_table' \ budget_table
NewAllocations == allocation_table' \ allocation_table

NothingPersisted == NewBudgets = {} /\ NewAllocations = {}

AllPersisted ==
    \E b \in NewBudgets :
        /\ NewBudgets = {b}
        /\ b.id = last'.budget_id
        /\ Cardinality(NewAllocations) = Len(last'.summary)
        /\ \A k \in DOMAIN last'.summary :
              Cardinality({a \in NewAllocations :
                              /\ a.budget_id = b.id
                              /\ a.county_id = last'.summary[k].county_id
                              /\ a.amount = last'.summary[k].amount}) = 1

C1_AllOrNothing ==
    [][last'.op = "create_budget_with_allocations" =>
          /\ budget_table \subseteq budget_table'
          /\ allocation_table \subseteq allocation_table'
          /\ county_table' = county_table
          /\ NothingPersisted \/ AllPersisted
          /\ ~last'.raised => AllPersisted
          /\ last'.failure.at \in {"budget", "flush", "calculator", "summary",
                                   "allocation", "insert", "commit"}
                => NothingPersisted]_vars

\* a storage failure on the second allocation insert has left no row
C1_Witness ==
    /\ last.op = "create_budget_with_allocations"
    /\ last.raised
    /\ last.failure = [at |-> "insert", k |-> 2]
    /\ Len(last.summary) = 2
    /\ budget_table = {}
    /\ allocation_table = {}

(***************************************************************************)
(* C2: constructing a calculator fails with an invalid-input error exactly *)
(* when the county list is empty or the budget amount is not strictly      *)
(* positive; no method ever runs on an empty list or a non-positive budget.*)
(***************************************************************************)
C2_ConstructorValidates ==
    /\ calc # "none" =>
          /\ calc = "failed" <=> (Len(counties) = 0 \/ budget_amount <= 0)
          /\ calc = "ready" <=> (Len(counties) > 0 /\ budget_amount > 0)
    /\ calc = "failed" =>
          /\ error \in {"Cannot allocate budget to zero counties",
                        "Budget amount must be greater than zero"}
          /\ op = "none"
    /\ op # "none" => Len(counties) > 0 /\ budget_amount > 0

C2_Witness == calc = "failed" /\ Len(counties) > 0 /\ budget_amount = 0

(***************************************************************************)
(* C3: equal_allocation returns one record per county in input order, all  *)
(* with the amount budget / count rounded to 2 decimals and the percentage *)
(* 100 / count rounded to 2 decimals.                                      *)
(***************************************************************************)
C3_EqualShares ==
    (calc = "ready" /\ op = "equal") =>
        /\ error = ""
        /\ Len(allocations) = Len(counties)
        /\ \A i \in DOMAIN counties :
              /\ allocations[i].county_id = counties[i].id
              /\ allocations[i].county_name = counties[i].name
              /\ IsNearest(allocations[i].amount, budget_amount, 2 * Len(counties))
              /\ IsNearest(allocations[i].percentage, 10000, Len(counties))
              /\ allocations[i].amount = allocations[1].amount
              /\ allocations[i].percentage = allocations[1].percentage

\* the scenario of the specification at scale: two counties, an even split
C3_Witness ==
    /\ Ran("equal")
    /\ Len(allocations) = 2
    /\ allocations[1].amount > 0
    /\ 4 * allocations[1].amount = budget_amount
    /\ allocations[2].percentage = 5000

(***************************************************************************)
(* C4: gdp_per_capita_allocation gives each county the amount              *)
(* (weight / sum of weights) x budget rounded to 2 decimals, with          *)
(* weight = max - gdp_per_capita + min over the calculator's county list.  *)
(***************************************************************************)
LowestGdp == CHOOSE i \in DOMAIN counties : \A j \in DOMAIN counties : ~GdpLess(j, i)
HighestGdp == CHOOSE i \in DOMAIN counties : \A j \in DOMAIN counties : ~GdpLess(i, j)

\* output / population over the common denominator, the product of the populations
ScaledGdp(i) ==
    counties[i].economic_output
        * ProdSeq([j \in DOMAIN counties |-> IF j = i THEN 1 ELSE counties[j].population])

ReflectedWeight(i) == ScaledGdp(HighestGdp) - ScaledGdp(i) + ScaledGdp(LowestGdp)

C4_GdpAmounts ==
    Ran("gdp_per_capita") =>
        /\ OneRecordPerCounty
        /\ \A i \in DOMAIN counties :
              IsNearest(AmountOf(i),
                        ReflectedWeight(i) * budget_amount,
                        2 * SumSeq([j \in DOMAIN counties |-> ReflectedWeight(j)]))

C4_Witness ==
    /\ Ran("gdp_per_capita")
    /\ Len(counties) = 3
    /\ GdpLess(1, 2) /\ GdpLess(2, 3)
    /\ counties[1].economic_output > 0
    /\ AmountOf(1) > AmountOf(2) /\ AmountOf(2) > AmountOf(3) /\ AmountOf(3) > 0

(***************************************************************************)
(* C5: with at least 2 counties of pairwise distinct GDP per capita, the   *)
(* county with the lowest GDP per capita has the largest amount of all     *)
(* returned records and the county with the highest has the smallest.      *)
(***************************************************************************)
DistinctGdp ==
    \A i, j \in DOMAIN counties : i # j => (GdpLess(i, j) \/ GdpLess(j, i))

C5_ExtremesOrdered ==
    (Ran("gdp_per_capita") /\ Len(counties) >= 2 /\ DistinctGdp) =>
        \A k \in DOMAIN allocations :
            /\ AmountOf(LowestGdp) >= allocations[k].amount
            /\ AmountOf(HighestGdp) <= allocations[k].amount

C5_Witness ==
    /\ Ran("gdp_per_capita")
    /\ Len(counties) = 3
    /\ DistinctGdp
    /\ GdpLess(2, 1) /\ GdpLess(1, 3)
    /\ AmountOf(2) > AmountOf(1) /\ AmountOf(1) > AmountOf(3)

(***************************************************************************)
(* C6: for every county list satisfying the County validity rules          *)
(* (population > 0, economic_output >= 0), every GDP weight satisfies      *)
(* weight >= min > 0, so the sum of weights is strictly positive and the   *)
(* division by the sum of weights never fails.                             *)
(***************************************************************************)
C6_DivisionNeverFails ==
    (calc = "ready" /\ op = "gdp_per_capita") =>
        /\ \A i \in DOMAIN counties :
              GdpWeights(counties)[i] >= MinSeq(GdpValues(counties))
        /\ SumSeq(GdpWeights(counties)) > 0
        /\ error = ""

(***************************************************************************)
(* C7: the records returned by gdp_per_capita_allocation are in descending *)
(* order of amount, and records with exactly equal amounts keep the        *)
(* relative order of their counties in the input list.                     *)
(***************************************************************************)
C7_GdpOrder ==
    Ran("gdp_per_capita") =>
        \A i, j \in DOMAIN allocations :
            i < j =>
                /\ allocations[i].amount >= allocations[j].amount
                /\ allocations[i].amount = allocations[j].amount =>
                      InputIndex(allocations[i].county_id)
                          < InputIndex(allocations[j].county_id)

\* a tie behind a larger amount that came later in the input
C7_Witness ==
    /\ Ran("gdp_per_capita")
    /\ Len(allocations) = 3
    /\ allocations[1].county_id = counties[3].id
    /\ allocations[2].amount = allocations[3].amount
    /\ allocations[1].amount > allocations[2].amount

(***************************************************************************)
(* C8: project_based_allocation gives each county the amount               *)
(* (project_score / sum of project scores) x budget rounded to 2 decimals  *)
(* and the percentage share x 100 rounded to 2 decimals.  As claimed: with *)
(* equal scores every county gets the same amount as under                 *)
(* equal_allocation.                                                       *)
(***************************************************************************)
TotalScore == SumSeq([j \in DOMAIN counties |-> counties[j].project_score])

EqualScores ==
    \A i, j \in DOMAIN counties : counties[i].project_score = counties[j].project_score

EqualAmountOf(i) ==
    equal_allocation(budget_amount, counties, half_up["equal"]).value[i].amount

ProjectShares ==
    /\ OneRecordPerCounty
    /\ \A i \in DOMAIN counties :
          /\ IsNearest(AmountOf(i),
                       counties[i].project_score * budget_amount, 2 * TotalScore)
          /\ IsNearest(allocations[OutputIndex(counties[i].id)].percentage,
                       10000 * counties[i].project_score, TotalScore)

C8_SameAsEqualAllocation ==
    Ran("project_based") =>
        /\ ProjectShares
        /\ EqualScores => \A i \in DOMAIN counties : AmountOf(i) = EqualAmountOf(i)

(***************************************************************************)
(* C8 as amended: the amounts and percentages are as claimed; with equal   *)
(* scores every county gets the same amount, and it is the amount of       *)
(* equal_allocation unless budget / count lies exactly on a rounding       *)
(* boundary (x.xx5) and the count is not a power of two, where the two     *)
(* differ by at most 0.01.                                                 *)
(***************************************************************************)
C8_ProjectAmounts ==
    Ran("project_based") =>
        /\ ProjectShares
        /\ EqualScores =>
              \A i \in DOMAIN counties :
                  /\ AmountOf(i) = AmountOf(1)
                  /\ AmountOf(i) - EqualAmountOf(i) \in {0 - 1, 0, 1}
                  /\ (~IsBoundary(budget_amount, 2 * Len(counties))
                        \/ IsPowerOfTwo(Len(counties)))
                     => AmountOf(i) = EqualAmountOf(i)

\* 0.015 over three counties of equal score: 0.0 each here, 0.01 each under equal
C8_Witness ==
    /\ Ran("project_based")
    /\ Len(counties) = 3
    /\ EqualScores
    /\ budget_amount = 3
    /\ \A i \in DOMAIN counties : AmountOf(i) = 0 /\ EqualAmountOf(i) = 1

(***************************************************************************)
(* C9: the records returned by project_based_allocation are in descending  *)
(* order of project_score, and counties of equal project_score keep their  *)
(* relative input order.                                                   *)
(***************************************************************************)
C9_ProjectOrder ==
    Ran("project_based") =>
        \A i, j \in DOMAIN allocations :
            i < j =>
                /\ allocations[i].project_score >= allocations[j].project_score
                /\ allocations[i].project_score = allocations[j].project_score =>
                      InputIndex(allocations[i].county_id)
                          < InputIndex(allocations[j].county_id)

C9_Witness ==
    /\ Ran("project_based")
    /\ Len(allocations) = 3
    /\ allocations[1].county_id = counties[2].id
    /\ allocations[2].county_id = counties[1].id
    /\ allocations[2].project_score = allocations[3].project_score

(***************************************************************************)
(* C10: in the output of project_based_allocation a higher project score   *)
(* never gets a smaller amount.                                            *)
(***************************************************************************)
C10_MonotonicInScore ==
    Ran("project_based") =>
        \A i, j \in DOMAIN counties :
            counties[i].project_score > counties[j].project_score
                => AmountOf(i) >= AmountOf(j)

C10_Witness ==
    /\ Ran("project_based")
    /\ Len(counties) = 3
    /\ \E i, j \in DOMAIN counties :
          /\ counties[i].project_score > counties[j].project_score
          /\ AmountOf(i) > AmountOf(j)
          /\ AmountOf(j) > 0

(***************************************************************************)
(* C11: project_based_allocation fails with an error and returns no        *)
(* records when the sum of the project scores of its counties is zero; the *)
(* failure does not happen on a list whose scores are all within 1..10.    *)
(***************************************************************************)
ScoresValid ==
    \A i \in DOMAIN counties : counties[i].project_score \in MinScore..MaxScore

C11_ZeroScoreSumFails ==
    (calc = "ready" /\ op = "project_based") =>
        /\ TotalScore = 0 =>
              /\ error = "Total project score cannot be zero"
              /\ allocations = << >>
        /\ TotalScore # 0 => error = ""
        /\ ScoresValid => error # "Total project score cannot be zero"

C11_Witness ==
    /\ calc = "ready"
    /\ op = "project_based"
    /\ Len(counties) = 2
    /\ TotalScore = 0
    /\ error = "Total project score cannot be zero"

(***************************************************************************)
(* C12: get_allocation_summary returns total_budget equal to the budget    *)
(* amount, num_counties equal to the number of counties, total_allocated   *)
(* equal to the sum of the rounded amounts, and remaining = total_budget - *)
(* total_allocated, so that remaining is non-zero exactly when the sum of  *)
(* the rounded amounts differs from the budget.  (total_budget is in half  *)
(* cents, total_allocated and remaining in cents.)                         *)
(***************************************************************************)
SummaryReturned == op = "get_allocation_summary" /\ returned.ok

C12_RemainingReported ==
    SummaryReturned =>
        LET summary == returned.value
            total == SumSeq(Amounts(summary.allocations))
        IN  /\ summary.method = returned.arg
            /\ summary.total_budget = budget_amount
            /\ summary.num_counties = Len(counties)
            /\ summary.total_allocated = total
            /\ 2 * summary.remaining = summary.total_budget - 2 * summary.total_allocated
            /\ summary.remaining # 0 <=> 2 * total # budget_amount

(***************************************************************************)
(* C13: get_allocation_summary called with a method name other than the    *)
(* three known ones fails with an unknown-method error and runs none of    *)
(* the three allocation computations.                                      *)
(***************************************************************************)
C13_UnknownMethodFails ==
    (op = "get_allocation_summary" /\ returned.arg \notin Methods) =>
        /\ ~returned.ok
        /\ error = "Unknown allocation method"
        /\ computed = {}
        /\ allocations = << >>

C13_Witness ==
    /\ op = "get_allocation_summary"
    /\ returned.arg = "unknown"
    /\ error = "Unknown allocation method"
    /\ Len(counties) = 2

(***************************************************************************)
(* C14: for each of the three methods, on N counties, the sum of the       *)
(* returned amounts differs from the budget amount by at most N half cents.*)
(***************************************************************************)
SumError == budget_amount - 2 * SumSeq(Amounts(allocations))

C14_SumWithinRounding ==
    \A m \in Methods :
        Ran(m) =>
            /\ Len(allocations) = Len(counties)
            /\ SumError <= Len(counties)
            /\ 0 - SumError <= Len(counties)

\* 0.015 split three ways as 0.01 each: one half cent over per county
C14_Witness ==
    /\ Ran("equal")
    /\ Len(counties) = 3
    /\ budget_amount = 3
    /\ SumError = 0 - 3

(***************************************************************************)
(* C15: on a non-empty county list and a positive budget,                  *)
(* compare_allocation_methods returns a 'methods' mapping with exactly the *)
(* three method names as keys; a method whose computation raises is        *)
(* recorded as {error: message} under its key, and every other key holds   *)
(* the summary get_allocation_summary returns for it on the same           *)
(* calculator.                                                             *)
(***************************************************************************)
Compared == calc = "ready" /\ op = "compare_allocation_methods"

\* what the first call on the calculator, if it was method m or its summary,
\* tells about the entry of m in the comparison
EntryAgrees(m, entry) ==
    /\ first_call.call = <<m>> =>
          IF first_call.output.ok
              THEN /\ DOMAIN entry # {"error"}
                   /\ entry.allocations = first_call.output.value
          ELSE entry = [error |-> first_call.output.error]
    /\ first_call.call = <<"get_allocation_summary", m>> =>
          IF first_call.output.ok THEN entry = first_call.output.value
          ELSE entry = [error |-> first_call.output.error]

C15_ComparisonComplete ==
    Compared =>
        /\ returned.ok
        /\ returned.value.budget_amount = budget_amount
        /\ returned.value.num_counties = Len(counties)
        /\ DOMAIN returned.value.methods = Methods
        /\ \A m \in Methods : EntryAgrees(m, returned.value.methods[m])

\* the GDP method had raised, the equal summary had returned
C15_Witness ==
    /\ Compared
    /\ Len(counties) = 2
    /\ first_call.call = <<"get_allocation_summary", "equal">>
    /\ returned.value.methods["equal"] = first_call.output.value
    /\ returned.value.methods["gdp_per_capita"] = [error |-> "division by zero"]
    /\ DOMAIN returned.value.methods["project_based"] # {"error"}

(***************************************************************************)
(* C16: each allocation method, and get_allocation_summary, is a pure      *)
(* function of the calculator's inputs: a call made again later, whatever  *)
(* was called in between, returns what it returned the first time, and     *)
(* budget_amount and the county list (contents and order) stay as they     *)
(* were.                                                                   *)
(***************************************************************************)
LastCall == IF op = "get_allocation_summary" THEN <<op, returned.arg>> ELSE <<op>>

LastOutput ==
    IF op \in Methods THEN [ok |-> error = "", value |-> allocations, error |-> error]
    ELSE [ok |-> returned.ok, value |-> returned.value, error |-> error]

ReturnedTrue(operation) ==
    last'.op = operation /\ ~last'.raised /\ last'.value = TRUE

C17_DeleteCascades ==
    [][/\ ReturnedTrue("delete_county") =>
             /\ \A a \in allocation_table' : a.county_id # last'.id
             /\ county_table' = {c \in county_table : c.id # last'.id}
             /\ county_table' # county_table
             /\ allocation_table' = {a \in allocation_table : a.county_id # last'.id}
             /\ budget_table' = budget_table
       /\ ReturnedTrue("delete_budget") =>
             /\ \A a \in allocation_table' : a.budget_id # last'.id
             /\ budget_table' = {b \in budget_table : b.id # last'.id}
             /\ budget_table' # budget_table
             /\ allocation_table' = {a \in allocation_table : a.budget_id # last'.id}
             /\ county_table' = county_table]_vars

\* of a budget allocated over two counties, one county was deleted: its
\* allocation is gone and the other is left
C17_Witness ==
    /\ last.op = "delete_county"
    /\ ~last.raised
    /\ last.value = TRUE
    /\ Cardinality(county_table) = 1
    /\ Cardinality(budget_table) = 1
    /\ \E a \in allocation_table :
          /\ allocation_table = {a}
          /\ a.county_id # last.id
          /\ \E c \in county_table : c.id = a.county_id

(***************************************************************************)
(* C18: referential integrity is an invariant of the store: every stored   *)
(* allocation references exactly one budget and exactly one county that    *)
(* both exist in the store.                                                *)
(***************************************************************************)
C18_ReferentialIntegrity ==
    \A a \in allocation_table :
        /\ Cardinality({b \in budget_table : b.id = a.budget_id}) = 1
        /\ Cardinality({c \in county_table : c.id = a.county_id}) = 1

(***************************************************************************)
(* C19: county validity is an invariant of the store: after every          *)
(* create_county, update_county and delete_county call, rejected or not,   *)
(* every stored county has a non-empty title-cased name no other stored    *)
(* county has, population > 0, economic_output >= 0 and a project_score in *)
(* 1..10; a rejected create or update leaves the stored counties           *)
(* unchanged.                                                              *)
(***************************************************************************)
TitleCased == {"Nairobi", "Mombasa", "Kisumu", "Kiambu", "Nakuru"}

CountyValid(c) ==
    /\ c.name # ""
    /\ c.name \in TitleCased
    /\ c.population > 0
    /\ c.economic_output >= 0
    /\ c.project_score \in MinScore..MaxScore

C19_CountiesValid ==
    [][/\ \A c \in county_table' :
             /\ CountyValid(c)
             /\ \A d \in county_table' : d.name = c.name => d = c
       /\ (last'.op \in {"create_county", "update_county"} /\ last'.raised)
             => county_table' = county_table]_vars

\* an update to population 0 was rejected with two counties stored
C19_Witness ==
    /\ last.op = "update_county"
    /\ last.raised
    /\ last.error = "Population must be greater than 0"
    /\ Cardinality(county_table) = 2
    /\ \E c \in county_table : c.id = last.id

(***************************************************************************)
(* C20: every storage operation releases the session it acquired on all    *)
(* exit paths: after an operation has returned or raised, also when a      *)
(* query or a commit inside it failed, no session it opened remains open.  *)
(***************************************************************************)
C20_SessionsReleased == open_sessions = 0

(***************************************************************************)
(* C21: in create_budget_with_allocations the budget row is added and      *)
(* flushed before the calculator validates its inputs, and a validation    *)
(* failure leaves no trace: when the county list is empty, or the method   *)
(* name or the amount is rejected, the call raises and the store holds the *)
(* same budget rows and allocation rows as before the call.                *)
(***************************************************************************)
ValidationStages == {"budget", "calculator", "summary"}

C21_ValidationLeavesNoTrace ==
    [][last'.op = "create_budget_with_allocations" =>
          /\ last'.failure.at \in ValidationStages =>
                /\ last'.raised
                /\ last'.error # ""
                /\ budget_table' = budget_table
                /\ allocation_table' = allocation_table
          /\ county_table = {} => last'.raised]_vars

\* the calculator rejected an empty county list after the flush had given the
\* budget its id, and no budget row is stored
C21_Witness ==
    /\ last.op = "create_budget_with_allocations"
    /\ last.failure.at = "calculator"
    /\ last.raised
    /\ last.budget_id = 1
    /\ budget_table = {}
    /\ allocation_table = {}

(***************************************************************************)
(* C22: update_county, update_budget and update_allocation persist the     *)
(* change: when the id exists and every given value passes the field       *)
(* validators, the call returns the entity as re-read from the store with  *)
(* each given attribute equal to the new value, which a later find_by_id   *)
(* returns too; when the id does not exist the call returns None and the   *)
(* store is unchanged.                                                     *)
(***************************************************************************)
UpdatedTable ==
    [update_county |-> "counties", update_budget |-> "budgets",
     update_allocation |-> "allocations"]

\* the value an attribute holds once its validator has accepted it
Stored(table, key, value) ==
    IF table = "counties" /\ key = "name" THEN StripTitle(value) ELSE value

C22_UpdatePersists ==
    [][(last'.op \in DOMAIN UpdatedTable /\ last'.failure.at = "none") =>
          LET table == UpdatedTable[last'.op]
              before == {r \in Tables[table] : r.id = last'.id}
              after == {r \in Tables'[table] : r.id = last'.id}
          IN  /\ (before # {} /\ UpdateError(table, last'.kwargs) = "") =>
                    /\ ~last'.raised
                    /\ \E r \in after :
                          /\ after = {r}
                          /\ \A key \in DOMAIN last'.kwargs :
                                r[key] = Stored(table, key, last'.kwargs[key])
                          /\ last'.value = r
              /\ before = {} =>
                    /\ ~last'.raised
                    /\ last'.value = "None"
                    /\ Tables' = Tables]_vars

(***************************************************************************)
(* C23: for every valid county list and positive budget, every amount      *)
(* produced by any of the three allocation methods is >= 0 and <=          *)
(* budget_amount, so the Allocation amount validator never rejects a       *)
(* record produced by the core.  budget_amount is in half cents and the    *)
(* amounts are in cents.                                                   *)
(***************************************************************************)
C23_AmountsWithinBudget ==
    \A m \in Methods :
        Ran(m) =>
            \A k \in DOMAIN allocations :
                /\ allocations[k].amount >= 0
                /\ 2 * allocations[k].amount <= budget_amount
                /\ AllocationError(allocations[k].amount) = ""

(***************************************************************************)
(* C23, as it holds: every amount produced is >= 0, so the validator never *)
(* rejects it, and is at most budget_amount rounded to 2 decimals: at most *)
(* budget_amount when the budget is a whole number of cents, and less than *)
(* a cent above it otherwise.                                              *)
(***************************************************************************)
C23_AmountsNonNegative ==
    \A m \in Methods :
        Ran(m) =>
            \A k \in DOMAIN allocations :
                /\ allocations[k].amount >= 0
                /\ AllocationError(allocations[k].amount) = ""
                /\ 2 * allocations[k].amount <= budget_amount + 1
                /\ budget_amount % 2 = 0 => 2 * allocations[k].amount <= budget_amount

\* a budget of 0.005 given to one county as 0.01
C23_Witness ==
    /\ Ran("equal")
    /\ Len(counties) = 1
    /\ budget_amount = 1
    /\ allocations[1].amount = 1

(***************************************************************************)
(* C24: for any number of counties, gdp_per_capita_allocation is           *)
(* order-reversing over every pair: a lower GDP per capita implies an      *)
(* amount at least as large, and equal GDP per capita implies equal        *)
(* amounts; when all counties have the same positive GDP per capita the    *)
(* amounts equal those of equal_allocation.                                *)
(***************************************************************************)
SameGdp(i, j) == ~GdpLess(i, j) /\ ~GdpLess(j, i)

OrderReversing ==
    \A i, j \in DOMAIN counties :
        /\ GdpLess(i, j) => AmountOf(i) >= AmountOf(j)
        /\ SameGdp(i, j) => AmountOf(i) = AmountOf(j)

OneGdp ==
    \A i \in DOMAIN counties : SameGdp(i, 1) /\ counties[i].economic_output > 0

C24_SameAsEqualAllocation ==
    Ran("gdp_per_capita") =>
        /\ OneRecordPerCounty
        /\ OrderReversing
        /\ OneGdp => \A i \in DOMAIN counties : AmountOf(i) = EqualAmountOf(i)

(***************************************************************************)
(* C24 as amended: the pairwise order holds as claimed; when all counties  *)
(* have the same positive GDP per capita every county gets the amount of   *)
(* equal_allocation unless budget / count lies on a rounding boundary      *)
(* (x.xx5) and there are three counties or more, where the two differ by   *)
(* at most 0.01.                                                           *)
(***************************************************************************)
C24_GdpPairwiseOrder ==
    Ran("gdp_per_capita") =>
        /\ OneRecordPerCounty
        /\ OrderReversing
        /\ OneGdp =>
              \A i \in DOMAIN counties :
                  /\ AmountOf(i) - EqualAmountOf(i) \in {0 - 1, 0, 1}
                  /\ (~IsBoundary(budget_amount, 2 * Len(counties)) \/ Len(counties) <= 2)
                     => AmountOf(i) = EqualAmountOf(i)

\* 0.015 over three counties of one GDP per capita: 0.0 each here, 0.01 each
\* under equal
C24_Witness ==
    /\ Ran("gdp_per_capita")
    /\ Len(counties) = 3
    /\ OneGdp
    /\ budget_amount = 3
    /\ \A i \in DOMAIN counties : AmountOf(i) = 0 /\ EqualAmountOf(i) = 1

====
